---- MODULE Spec2Model ----
(***************************************************************************)
(* The TronLink deeplink callback relay (src/src/index.js): an express +   *)
(* socket.io server holding three process-wide Maps.  A wallet posts a     *)
(* callback carrying an actionId; the server stores it for HTTP polling    *)
(* and, if a socket registered for that actionId is connected, emits it    *)
(* over that socket.  Pollers take stored callbacks by actionId; a timer   *)
(* removes callbacks older than five minutes.                              *)
(*                                                                         *)
(* Every handler of index.js is synchronous (no await, no callback         *)
(* between its first read and its last write), so node's run-to-completion *)
(* event loop executes each handler as one step: one action per handler.   *)
(* The read-only endpoints (/health, /debug, /stats) change nothing and    *)
(* are not modelled.                                                       *)
(***************************************************************************)
EXTENDS Integers, Sequences, FiniteSets, TLC

(* ------------------------------ bounds -------------------------------- *)

\* actionIds the clients and the wallet use (opaque strings)
Keys == {"k1", "k2"}

\* socket.io connection ids; socket.io never hands out an id twice
SocketIds == {"s1", "s2"}

\* Spec: one actionId, one socket, followed for as long as it takes a stored
\* callback to expire.
\* callbacks submitted (to /callback and /test-callback) in one behaviour
MaxEvents == 2

\* clock steps in one behaviour: a callback stored at one of the first
\* instants lives through its whole retention window and the sweep after it
MaxTicks == 8

\* WideSpec: all actionIds and sockets, one callback, the first sweep.
WideEvents == 1

WideTicks == 2

\* BulkSpec: all actionIds, one socket, two callbacks, the first sweep.
BulkEvents == 2

BulkTicks == 2

\* longest actionIds array posted to /check-callbacks
MaxBulk == 2

\* milliseconds the clock advances in one step: a common divisor of maxAge
\* and the sweep interval, so that an arrival can sit exactly maxAge before
\* a sweep (the case the strict comparison in cleanupExpiredCallbacks decides)
Delays == {60000}

(* ------------------------- program constants -------------------------- *)

\* const maxAge = 300000; // 5 minutes
maxAge == 300000

\* setInterval(cleanupExpiredCallbacks, 120000);
sweepInterval == 120000

(* ------------------------------- state -------------------------------- *)

VARIABLES
  activeConnections,   \* Map actionId -> socket.id, in insertion order
  callbackStorage,     \* Map actionId -> callback payload
  callbackMetadata,    \* Map actionId -> [timestamp, source]
  sockets,             \* per socket id: "new", "open" (in io.sockets.sockets
                       \* and connected) or "closed"
  now,                 \* Date.now()
  nextSweep,           \* the instant the interval timer fires next
  submitted,           \* callbacks submitted so far; the next one carries
                       \* id = submitted + 1
  pushedOnArrival,     \* history: per callback id, emits made by the
                       \* arrival handlers (/callback, /test-callback)
  pushedOnRegister,    \* history: per callback id, emits made by 'register'
  pulled,              \* history: per callback id, the actionIds polled
                       \* each time it was returned to a poller
  out                  \* the last step: the handler run, its request, its
                       \* response and what it emitted; "tick" when the step
                       \* was the clock's

vars == <<activeConnections, callbackStorage, callbackMetadata, sockets, now,
          nextSweep, submitted, pushedOnArrival, pushedOnRegister, pulled, out>>

maps == <<activeConnections, callbackStorage, callbackMetadata>>
hist == <<pushedOnArrival, pushedOnRegister, pulled>>

(* ---------------------- JavaScript Map, modelled ---------------------- *)

\* new Map()
EmptyMap == [x \in {} |-> x]

\* map.has(k)
Has(m, k) == k \in DOMAIN m

\* map.set(k, v)
Put(m, k, v) == [x \in (DOMAIN m) \cup {k} |-> IF x = k THEN v ELSE m[x]]

\* map.delete(k)
Remove(m, k) == [x \in (DOMAIN m) \ {k} |-> m[x]]

\* An insertion-ordered Map (activeConnections is iterated by 'disconnect'):
\* a sequence of entries, one per key.
OHas(m, k) == \E i \in 1..Len(m) : m[i].actionId = k

OGet(m, k) == m[CHOOSE i \in 1..Len(m) : m[i].actionId = k].socketId

ODelete(m, k) == SelectSeq(m, LAMBDA e : e.actionId # k)

OKeys(m) == {m[i].actionId : i \in 1..Len(m)}


\* (mutant) a key already present keeps its first socket
OSet_KeepFirst(m, k, v) ==
  IF OHas(m, k) THEN m ELSE Append(m, [actionId |-> k, socketId |-> v])

\* activeConnections.set(actionId, socket.id): a key already present keeps
\* its place in the iteration order and takes the new value
OSet(m, k, v) ==
  IF OHas(m, k)
  THEN [i \in 1..Len(m) |-> IF m[i].actionId = k
                            THEN [actionId |-> k, socketId |-> v]
                            ELSE m[i]]
  ELSE Append(m, [actionId |-> k, socketId |-> v])

(* ----------------------------- requests ------------------------------- *)

\* Bodies the wallet may post as its n-th callback: with an actionId, with an
\* empty one, with none.  The id field tells the callbacks apart.
Bodies(keys, n) == {[actionId |-> k, id |-> n] : k \in keys \cup {""}} \cup {[id |-> n]}

\* req.body.actionIds of POST /check-callbacks: an array of actionIds, or
\* something that is not an array
KeySeqs(keys, n) == UNION {[1..m -> keys] : m \in 0..n}

BulkRequests(keys, n) ==
  {[kind |-> "array", items |-> q] : q \in KeySeqs(keys, n)}
    \cup {[kind |-> "undefined", items |-> <<>>]}

\* what a handler that answers nothing leaves in a response slot
None == EmptyMap

\* the shortest step of the clock
TickMs == CHOOSE d \in Delays : \A e \in Delays : d <= e

\* the instant the clock stops at after n steps
Horizon(n) == n * TickMs

(* ------------------------------- Init --------------------------------- *)

Init ==
  /\ activeConnections = <<>>
  /\ callbackStorage = EmptyMap
  /\ callbackMetadata = EmptyMap
  /\ sockets = [s \in SocketIds |-> "new"]
  /\ now = 0
  /\ nextSweep = sweepInterval
  /\ submitted = 0
  /\ pushedOnArrival = <<>>
  /\ pushedOnRegister = <<>>
  /\ pulled = <<>>
  /\ out = [op |-> "start", arg |-> None, status |-> 0, body |-> None, emit |-> <<>>]

\* history counter h with one more delivery of callback id e
Bump(h, e) == [h EXCEPT ![e] = @ + 1]

\* history h with callback id e returned once more, to a poll of actionId k
Took(h, e, k) == [h EXCEPT ![e] = Append(@, k)]

(* --------------------- socket.io connection events -------------------- *)

\* io.on("connection"): the socket joins io.sockets.sockets, connected
Connection(s) ==
  /\ sockets[s] = "new"
  /\ sockets' = [sockets EXCEPT ![s] = "open"]
  /\ out' = [op |-> "connection", arg |-> s, status |-> 0, body |-> None, emit |-> <<>>]
  /\ UNCHANGED <<maps, now, nextSweep, submitted, hist>>

\* (mutant) 'register' never looks for a stored callback
CatchUp_Never(storage, actionId) == FALSE

\* if (callbackStorage.has(actionId)): is a stored callback sent at once
CatchUp(storage, actionId) == Has(storage, actionId)

\* (mutant) 'register' leaves the callback it sent in the Maps
RegisterCleanup_Keep(m, actionId) == m

\* callbackStorage.delete(actionId) / callbackMetadata.delete(actionId) of
\* the 'register' handler, after the emit
RegisterCleanup(m, actionId) == Remove(m, actionId)

\* the socket ids activeConnections held for actionId (none or one) when
\* 'register' ran: what its set(actionId, socket.id) replaced
Previous(conns, actionId) == IF OHas(conns, actionId) THEN {OGet(conns, actionId)} ELSE {}

\* socket.on("register", (actionId) => ...)
Register(s, actionId) ==
  /\ sockets[s] = "open"
  /\ activeConnections' = OSet(activeConnections, actionId, s)
  /\ IF CatchUp(callbackStorage, actionId)
     THEN LET storedCallback == callbackStorage[actionId] IN
          /\ out' = [op |-> "register", arg |-> [socket |-> s, actionId |-> actionId],
                     status |-> 0,
                     body |-> [previous |-> Previous(activeConnections, actionId)],
                     emit |-> <<[to |-> s, data |-> storedCallback]>>]
          /\ callbackStorage' = RegisterCleanup(callbackStorage, actionId)
          /\ callbackMetadata' = RegisterCleanup(callbackMetadata, actionId)
          /\ pushedOnRegister' = Bump(pushedOnRegister, storedCallback.id)
     ELSE /\ out' = [op |-> "register", arg |-> [socket |-> s, actionId |-> actionId],
                     status |-> 0,
                     body |-> [previous |-> Previous(activeConnections, actionId)],
                     emit |-> <<>>]
          /\ UNCHANGED <<callbackStorage, callbackMetadata, pushedOnRegister>>
  /\ UNCHANGED <<sockets, now, nextSweep, submitted, pushedOnArrival, pulled>>

\* the for loop of 'disconnect': delete the first entry, in iteration order,
\* whose value is this socket's id, then break
UnregisterByHandle(m, s) ==
  IF \E i \in 1..Len(m) : m[i].socketId = s
  THEN LET first == CHOOSE i \in 1..Len(m) :
                      /\ m[i].socketId = s
                      /\ \A j \in 1..(i - 1) : m[j].socketId # s
       IN  ODelete(m, m[first].actionId)
  ELSE m

\* socket.on("disconnect"): socket.io has already taken the socket out of
\* io.sockets.sockets and cleared socket.connected when the handler runs
Disconnect(s) ==
  /\ sockets[s] = "open"
  /\ sockets' = [sockets EXCEPT ![s] = "closed"]
  /\ activeConnections' = UnregisterByHandle(activeConnections, s)
  /\ out' = [op |-> "disconnect", arg |-> s, status |-> 0, body |-> None, emit |-> <<>>]
  /\ UNCHANGED <<callbackStorage, callbackMetadata, now, nextSweep, submitted, hist>>


(* ------------------------- callback ingestion ------------------------- *)

\* (mutant) only an absent actionId is refused
MissingActionId_OnlyAbsent(body) == "actionId" \notin DOMAIN body

\* if (!actionId): an absent or empty actionId is refused
MissingActionId(body) == ("actionId" \notin DOMAIN body) \/ body.actionId = ""

\* (mutant) the socket is taken to be connected without looking
SocketConnected_Always(socks, socketId) == TRUE

\* const socket = io.sockets.sockets.get(socketId); socket && socket.connected
SocketConnected(socks, socketId) == socketId \in DOMAIN socks /\ socks[socketId] = "open"

\* if (activeConnections.has(actionId)) { ... if (socket && socket.connected):
\* is the callback emitted over a socket
PushTarget(conns, socks, actionId) ==
  IF OHas(conns, actionId) /\ SocketConnected(socks, OGet(conns, actionId))
  THEN {OGet(conns, actionId)}
  ELSE {}

\* (mutant) /callback leaves the registration in place after the emit
CallbackCleanup_Keep(conns, actionId) == conns

\* activeConnections.delete(actionId) of /callback, after the emit
CallbackCleanup(conns, actionId) == ODelete(conns, actionId)

\* the metadata /callback and /test-callback record on arrival
Metadata(t, source) == [timestamp |-> t, source |-> source]

\* (mutant) the arrival handler records no metadata
RecordArrival_Skip(metadata, actionId, t, source) == metadata

\* callbackMetadata.set(actionId, {timestamp: Date.now(), ..., source})
RecordArrival(metadata, actionId, t, source) ==
  Put(metadata, actionId, Metadata(t, source))

\* app.all("/callback")
Callback(body) ==
  /\ submitted' = submitted + 1
  /\ IF MissingActionId(body)
     THEN /\ out' = [op |-> "callback", arg |-> body, status |-> 400,
                     body |-> [error |-> "actionId is required"], emit |-> <<>>]
          /\ pushedOnArrival' = Append(pushedOnArrival, 0)
          /\ UNCHANGED maps
     ELSE LET actionId == body.actionId
              target == PushTarget(activeConnections, sockets, actionId)
          IN  /\ callbackStorage' = Put(callbackStorage, actionId, body)
              /\ callbackMetadata' = RecordArrival(callbackMetadata, actionId, now, "unknown")
              /\ activeConnections' = IF target # {}
                                       THEN CallbackCleanup(activeConnections, actionId)
                                       ELSE activeConnections
              /\ pushedOnArrival' = Append(pushedOnArrival, Cardinality(target))
              /\ out' = [op |-> "callback", arg |-> body, status |-> 200,
                         body |-> [success |-> TRUE, actionId |-> actionId,
                                   storedForPolling |-> TRUE],
                         emit |-> IF target # {}
                                  THEN <<[to |-> OGet(activeConnections, actionId),
                                          data |-> body]>>
                                  ELSE <<>>]
  /\ pushedOnRegister' = Append(pushedOnRegister, 0)
  /\ pulled' = Append(pulled, <<>>)
  /\ UNCHANGED <<sockets, now, nextSweep>>

\* the key /test-callback makes up for a body without actionId:
\* `test-${Date.now()}`
GeneratedKey(t) ==
  <<"test-0", "test-60000", "test-120000", "test-180000", "test-240000",
    "test-300000", "test-360000", "test-420000", "test-480000", "test-540000",
    "test-600000", "test-660000">>[(t \div 60000) + 1]

\* const testData = {...}: the body's fields, defaults for the missing ones
TestData(body, t) ==
  [actionId |-> IF MissingActionId(body) THEN GeneratedKey(t) ELSE body.actionId,
   address |-> "TTest123456789", code |-> 0, id |-> body.id,
   message |-> "success", transactionHash |-> "test-tx-hash", successful |-> TRUE]

\* app.post("/test-callback")
TestCallback(body) ==
  /\ submitted' = submitted + 1
  /\ LET testData == TestData(body, now)
         target == PushTarget(activeConnections, sockets, testData.actionId)
     IN  /\ callbackStorage' = Put(callbackStorage, testData.actionId, testData)
         /\ callbackMetadata' = RecordArrival(callbackMetadata, testData.actionId,
                                              now, "test-endpoint")
         /\ pushedOnArrival' = Append(pushedOnArrival, Cardinality(target))
         /\ out' = [op |-> "test-callback", arg |-> body, status |-> 200,
                    body |-> [success |-> TRUE, testData |-> testData,
                              storedForPolling |-> TRUE,
                              activeConnections |-> OKeys(activeConnections)],
                    emit |-> IF target # {}
                             THEN <<[to |-> OGet(activeConnections, testData.actionId),
                                     data |-> testData]>>
                             ELSE <<>>]
  /\ pushedOnRegister' = Append(pushedOnRegister, 0)
  /\ pulled' = Append(pulled, <<>>)
  /\ UNCHANGED <<activeConnections, sockets, now, nextSweep>>

(* ------------------------------ polling ------------------------------- *)

\* (mutant) the poll empties the Map
PollCleanup_All(m, actionId) == EmptyMap

\* (mutant) the poll leaves the entry where it is
PollCleanup_Keep(m, actionId) == m

\* callbackStorage.delete(actionId) / callbackMetadata.delete(actionId) of
\* GET /check-callback/:actionId, after the response
PollCleanup(m, actionId) == Remove(m, actionId)

\* age: metadata ? Date.now() - metadata.timestamp : 0
Age(metadata, actionId, t) ==
  IF Has(metadata, actionId) THEN t - metadata[actionId].timestamp ELSE 0

\* (mutant) the 404 lists no actionIds
AvailableActionIds_None(storage) == {}

\* availableActionIds: Array.from(callbackStorage.keys())
AvailableActionIds(storage) == DOMAIN storage

\* app.get("/check-callback/:actionId"); a stored callback is an object, so
\* if (callback) is callbackStorage.has(actionId)
CheckCallback(actionId) ==
  /\ IF Has(callbackStorage, actionId)
     THEN LET callback == callbackStorage[actionId] IN
          /\ out' = [op |-> "check-callback", arg |-> actionId, status |-> 200,
                     body |-> [success |-> TRUE, data |-> callback,
                               age |-> Age(callbackMetadata, actionId, now)],
                     emit |-> <<>>]
          /\ callbackStorage' = PollCleanup(callbackStorage, actionId)
          /\ callbackMetadata' = PollCleanup(callbackMetadata, actionId)
          /\ pulled' = Took(pulled, callback.id, actionId)
     ELSE /\ out' = [op |-> "check-callback", arg |-> actionId, status |-> 404,
                     body |-> [success |-> FALSE, actionId |-> actionId,
                               availableActionIds |-> AvailableActionIds(callbackStorage)],
                     emit |-> <<>>]
          /\ UNCHANGED <<callbackStorage, callbackMetadata, pulled>>
  /\ UNCHANGED <<activeConnections, sockets, now, nextSweep, submitted,
                 pushedOnArrival, pushedOnRegister>>


\* (mutant) the loop leaves the entries it returned in the Maps
BulkCleanup_Keep(m, actionId) == m

\* callbackStorage.delete(actionId) / callbackMetadata.delete(actionId) in
\* the loop of POST /check-callbacks
BulkCleanup(m, actionId) == Remove(m, actionId)

\* one turn of for (const actionId of actionIds): st carries the two Maps,
\* the results object, the found and notFound arrays
BulkTurn(st, actionId, t) ==
  IF Has(st.storage, actionId)
  THEN [storage |-> BulkCleanup(st.storage, actionId),
        metadata |-> BulkCleanup(st.metadata, actionId),
        results |-> Put(st.results, actionId,
                        [success |-> TRUE, data |-> st.storage[actionId],
                         age |-> Age(st.metadata, actionId, t)]),
        found |-> Append(st.found, actionId),
        notFound |-> st.notFound]
  ELSE [storage |-> st.storage,
        metadata |-> st.metadata,
        results |-> Put(st.results, actionId,
                        [success |-> FALSE, message |-> "No callback found"]),
        found |-> st.found,
        notFound |-> Append(st.notFound, actionId)]

RECURSIVE BulkLoop(_, _, _, _)
\* the loop over actionIds, from its i-th element on
BulkLoop(st, actionIds, i, t) ==
  IF i > Len(actionIds) THEN st
  ELSE BulkLoop(BulkTurn(st, actionIds[i], t), actionIds, i + 1, t)

RECURSIVE TookAll(_, _, _, _)
\* history h with each callback that the Map storage held under keys[i..]
\* returned once more
TookAll(h, storage, keys, i) ==
  IF i > Len(keys) THEN h
  ELSE TookAll(Took(h, storage[keys[i]].id, keys[i]), storage, keys, i + 1)

\* app.post("/check-callbacks")
CheckCallbacks(req) ==
  /\ IF req.kind # "array"
     THEN /\ out' = [op |-> "check-callbacks", arg |-> req, status |-> 400,
                     body |-> [error |-> "actionIds must be an array"], emit |-> <<>>]
          /\ UNCHANGED <<callbackStorage, callbackMetadata, pulled>>
     ELSE LET end == BulkLoop([storage |-> callbackStorage,
                               metadata |-> callbackMetadata,
                               results |-> EmptyMap, found |-> <<>>, notFound |-> <<>>],
                              req.items, 1, now)
          IN  /\ callbackStorage' = end.storage
              /\ callbackMetadata' = end.metadata
              /\ pulled' = TookAll(pulled, callbackStorage, end.found, 1)
              /\ out' = [op |-> "check-callbacks", arg |-> req, status |-> 200,
                         body |-> [success |-> TRUE, results |-> end.results,
                                   total |-> Len(req.items),
                                   found |-> Len(end.found),
                                   notFound |-> Len(end.notFound),
                                   foundActionIds |-> end.found,
                                   notFoundActionIds |-> end.notFound],
                         emit |-> <<>>]
  /\ UNCHANGED <<activeConnections, sockets, now, nextSweep, submitted,
                 pushedOnArrival, pushedOnRegister>>

(* ------------------------- cleanup and expiry ------------------------- *)

\* app.post("/cleanup"): clear all three Maps
Cleanup ==
  /\ activeConnections' = <<>>
  /\ callbackStorage' = EmptyMap
  /\ callbackMetadata' = EmptyMap
  /\ out' = [op |-> "cleanup", arg |-> None, status |-> 200,
             body |-> [success |-> TRUE,
                       webSocketConnections |-> Len(activeConnections),
                       storedCallbacks |-> Cardinality(DOMAIN callbackStorage)],
             emit |-> <<>>]
  /\ UNCHANGED <<sockets, now, nextSweep, submitted, hist>>

\* (mutant) a callback expires as soon as its age reaches maxAge
Expired_Inclusive(metadata, t) == t - metadata.timestamp >= maxAge

\* (mutant) a callback expires one sweep interval later
Expired_Slack(metadata, t) == t - metadata.timestamp > maxAge + sweepInterval

\* if (now - metadata.timestamp > maxAge)
Expired(metadata, t) == t - metadata.timestamp > maxAge

\* the keys the loop of cleanupExpiredCallbacks deletes from both Maps
ExpiredKeys(metadata, t) == {k \in DOMAIN metadata : Expired(metadata[k], t)}

\* m without the keys in ks
RemoveAll(m, ks) == [x \in (DOMAIN m) \ ks |-> m[x]]

\* cleanupExpiredCallbacks(), run by setInterval every sweepInterval ms
cleanupExpiredCallbacks ==
  /\ now = nextSweep
  /\ nextSweep' = nextSweep + sweepInterval
  /\ LET gone == ExpiredKeys(callbackMetadata, now) IN
     /\ callbackStorage' = RemoveAll(callbackStorage, gone)
     /\ callbackMetadata' = RemoveAll(callbackMetadata, gone)
     /\ out' = [op |-> "sweep", arg |-> now, status |-> 0,
                body |-> [cleaned |-> gone], emit |-> <<>>]
  /\ UNCHANGED <<activeConnections, sockets, now, submitted, hist>>

\* time passes, by d milliseconds; a due timer fires before the clock moves on
Tick(d) ==
  /\ now + d <= nextSweep
  /\ now' = now + d
  /\ out' = [op |-> "tick", arg |-> d, status |-> 0, body |-> None, emit |-> <<>>]
  /\ UNCHANGED <<maps, sockets, nextSweep, submitted, hist>>

(* ------------------------------- Next --------------------------------- *)

\* every handler, with requests over the actionIds keys and the sockets
\* socks, at most maxEvents callbacks, arrays of at most maxBulk actionIds,
\* and maxTicks steps of the clock
Handlers(keys, socks, maxEvents, maxBulk, maxTicks) ==
  \/ \E s \in socks : Connection(s)
  \/ \E s \in socks, k \in keys : Register(s, k)
  \/ \E s \in socks : Disconnect(s)
  \/ submitted < maxEvents /\ \E body \in Bodies(keys, submitted + 1) : Callback(body)
  \/ submitted < maxEvents /\ \E body \in Bodies(keys, submitted + 1) : TestCallback(body)
  \/ \E k \in keys \cup DOMAIN callbackStorage : CheckCallback(k)
  \/ \E req \in BulkRequests(keys, maxBulk) : CheckCallbacks(req)
  \/ Cleanup
  \/ cleanupExpiredCallbacks
  \/ \E d \in Delays : now + d <= Horizon(maxTicks) /\ Tick(d)

Next == Handlers({"k1"}, {"s1"}, MaxEvents, MaxBulk, MaxTicks)

Spec == Init /\ [][Next]_vars

\* setInterval fires the sweep whenever it is due, and time does not stop
FairSpec ==
  Spec /\ WF_vars(cleanupExpiredCallbacks)
       /\ WF_vars(\E d \in Delays : now + d <= Horizon(MaxTicks) /\ Tick(d))

WideNext == Handlers(Keys, SocketIds, WideEvents, MaxBulk, WideTicks)

WideSpec == Init /\ [][WideNext]_vars

BulkNext == Handlers(Keys, {"s1"}, BulkEvents, MaxBulk, BulkTicks)

BulkSpec == Init /\ [][BulkNext]_vars

(* ----------------------------- vocabulary ------------------------------ *)

\* the step just taken was a run of handler op
Ran(op) == out'.op = op /\ out' # out

(* ================================ C1 =================================== *)

\* C1: a stored callback is handed to pollers exactly once.  (a) /callback
\* with a valid body E stores E under E's actionId K.  (b) From then on the
\* entry for K stays as it is until a step that is a push for K (register),
\* a reset (cleanup), a sweep, a new callback for K, or a poll of K.  (c) A
\* GET /check-callback/K that finds an entry answers 200 with that entry's
\* payload and removes the entry from both Maps.  (d) A GET /check-callback/K
\* right after a successful one for K answers 404.
C1_Step ==
  \A K \in Keys :
    /\ (Ran("callback") /\ out'.status = 200 /\ out'.arg.actionId = K)
         => (Has(callbackStorage', K) /\ callbackStorage'[K] = out'.arg)
    /\ (Has(callbackStorage, K)
          /\ (~Has(callbackStorage', K) \/ callbackStorage'[K] # callbackStorage[K]))
         => \/ Ran("register") /\ out'.arg.actionId = K /\ out'.emit # <<>>
            \/ Ran("cleanup")
            \/ Ran("sweep") /\ K \in out'.body.cleaned
            \/ Ran("callback") /\ out'.status = 200 /\ out'.arg.actionId = K
            \/ Ran("test-callback") /\ out'.body.testData.actionId = K
            \/ Ran("check-callback") /\ out'.arg = K /\ out'.status = 200
            \/ Ran("check-callbacks") /\ out'.status = 200
                 /\ \E i \in 1..Len(out'.arg.items) : out'.arg.items[i] = K
    /\ (Ran("check-callback") /\ out'.arg = K /\ Has(callbackStorage, K))
         => /\ out'.status = 200
            /\ out'.body.data = callbackStorage[K]
            /\ ~Has(callbackStorage', K)
            /\ ~Has(callbackMetadata', K)
    /\ (Ran("check-callback") /\ out'.arg = K
          /\ out.op = "check-callback" /\ out.arg = K /\ out.status = 200)
         => (out'.status = 404 /\ out'.body.success = FALSE)

C1_ExactlyOncePull == [][C1_Step]_vars

\* a poll has just returned a callback that was never pushed
C1_Witness ==
  /\ out.op = "check-callback" /\ out.status = 200
  /\ out.arg \in Keys
  /\ pulled[out.body.data.id] = <<out.arg>>
  /\ pushedOnArrival[out.body.data.id] = 0
  /\ pushedOnRegister[out.body.data.id] = 0

(* ================================ C2 =================================== *)

C2_Step ==
  \A K \in Keys :
    /\ (Ran("register") /\ out'.arg.actionId = K /\ Has(callbackStorage, K))
         => /\ out'.emit = <<[to |-> out'.arg.socket, data |-> callbackStorage[K]]>>
            /\ OHas(activeConnections', K)
            /\ OGet(activeConnections', K) = out'.arg.socket
            /\ ~Has(callbackStorage', K)
            /\ ~Has(callbackMetadata', K)
    /\ (Ran("check-callback") /\ out'.arg = K
          /\ out.op = "register" /\ out.arg.actionId = K /\ out.emit # <<>>)
         => out'.status = 404

C3_Step ==
  \A K \in Keys :
    /\ (Ran("callback") /\ out'.status = 200 /\ out'.arg.actionId = K
          /\ OHas(activeConnections, K)
          /\ sockets[OGet(activeConnections, K)] = "open")
         => /\ out'.emit = <<[to |-> OGet(activeConnections, K), data |-> out'.arg]>>
            /\ ~OHas(activeConnections', K)
            /\ Has(callbackStorage', K)
            /\ callbackStorage'[K] = out'.arg
    /\ (Ran("check-callback") /\ out'.arg = K
          /\ out.op = "callback" /\ out.status = 200 /\ out.arg.actionId = K
          /\ out.emit # <<>>)
         => (out'.status = 200 /\ out'.body.data = out.arg)

C3_PushKeepsStored == [][C3_Step]_vars

\* a poll has just returned a callback that /callback had pushed on arrival
C3_Witness ==
  /\ out.op = "check-callback" /\ out.status = 200
  /\ DOMAIN out.body.data = {"actionId", "id"}
  /\ pushedOnArrival[out.body.data.id] = 1
  /\ ~OHas(activeConnections, out.arg)

(* ================================ C4 =================================== *)

\* the callbacks submitted so far, by id
Events == 1..submitted

\* C4 as claimed: no callback is both emitted over a socket and returned to a
\* poller.
C4_Original ==
  \A e \in Events :
    ~(pushedOnArrival[e] + pushedOnRegister[e] > 0 /\ Len(pulled[e]) > 0)

\* C4, amended: once stored, a callback leaves the store through at most one
\* delivery, a 'register' emit or a poll, never both and never twice; and the
\* arrival handler emits it at most once.  So a callback reaches both a
\* socket and a poller only when its arrival handler pushed it and a poll
\* then took the stored copy.
C4_OneDeliveryFromStore ==
  \A e \in Events :
    /\ pushedOnRegister[e] + Len(pulled[e]) <= 1
    /\ pushedOnArrival[e] <= 1

\* a callback was pushed on arrival and later returned to a poller
C4_Witness ==
  \E e \in Events : pushedOnArrival[e] = 1 /\ Len(pulled[e]) = 1 /\ pushedOnRegister[e] = 0

(* ================================ C5 =================================== *)

\* C5: /callback with a body whose actionId is absent or empty answers 400
\* and changes none of the three Maps and emits nothing.
C5_Step ==
  (Ran("callback") /\ ("actionId" \notin DOMAIN out'.arg \/ out'.arg.actionId = ""))
    => /\ out'.status = 400
       /\ out'.emit = <<>>
       /\ UNCHANGED <<activeConnections, callbackStorage, callbackMetadata>>

C5_MissingKeyRejected == [][C5_Step]_vars

\* /callback has just refused a body with an empty actionId
C5_Witness ==
  /\ out.op = "callback" /\ out.status = 400
  /\ "actionId" \in DOMAIN out.arg
  /\ out.arg.actionId = ""

(* ================================ C6 =================================== *)

\* C6: /callback for K with a valid body, run while activeConnections has no
\* entry for K or holds for K a socket that is not connected, answers 200
\* with the actionId and storedForPolling, emits nothing, leaves
\* activeConnections as it is and has the callback in callbackStorage; a poll
\* of K right after it answers 200 with that payload.
C6_Step ==
  \A K \in Keys :
    /\ (Ran("callback") /\ "actionId" \in DOMAIN out'.arg /\ out'.arg.actionId = K
          /\ (~OHas(activeConnections, K)
                \/ sockets[OGet(activeConnections, K)] # "open"))
         => /\ out'.status = 200
            /\ out'.body = [success |-> TRUE, actionId |-> K, storedForPolling |-> TRUE]
            /\ out'.emit = <<>>
            /\ activeConnections' = activeConnections
            /\ Has(callbackStorage', K)
            /\ callbackStorage'[K] = out'.arg
    /\ (Ran("check-callback") /\ out'.arg = K
          /\ out.op = "callback" /\ out.status = 200 /\ out.arg.actionId = K
          /\ out.emit = <<>>)
         => (out'.status = 200 /\ out'.body.data = out.arg)

C6_NoSubscriberStillStored == [][C6_Step]_vars

\* /callback has just stored, without emitting, a callback whose actionId is
\* registered to a socket that has disconnected
C6_Witness ==
  /\ out.op = "callback" /\ out.status = 200 /\ out.emit = <<>>
  /\ OHas(activeConnections, out.arg.actionId)
  /\ sockets[OGet(activeConnections, out.arg.actionId)] = "closed"
  /\ callbackStorage[out.arg.actionId] = out.arg

(* ================================ C7 =================================== *)

\* the entries activeConnections holds for actionId K
Entries(conns, K) == {i \in 1..Len(conns) : conns[i].actionId = K}

\* C7: the last registration wins.  (a) After 'register' for K by socket H,
\* activeConnections holds exactly one entry for K, and it is H, whatever it
\* held before.  (b) The socket held for K changes only by a 'register' for K,
\* to the registering socket.  (c) Every emit of a callback for K goes to the
\* socket activeConnections holds for K: the arrival handlers emit to the one
\* held when they run, 'register' emits to the registering socket.  (d) A
\* 'disconnect' of another socket leaves K's entry as it is.
C7_Step ==
  \A K \in Keys :
    /\ Cardinality(Entries(activeConnections', K)) <= 1
    /\ (Ran("register") /\ out'.arg.actionId = K)
         => /\ Cardinality(Entries(activeConnections', K)) = 1
            /\ OGet(activeConnections', K) = out'.arg.socket
    /\ (OHas(activeConnections', K)
          /\ (~OHas(activeConnections, K)
                \/ OGet(activeConnections', K) # OGet(activeConnections, K)))
         => (Ran("register")
               /\ out'.arg = [socket |-> OGet(activeConnections', K), actionId |-> K])
    /\ (Ran("callback") /\ out'.status = 200 /\ out'.arg.actionId = K /\ out'.emit # <<>>)
         => (OHas(activeConnections, K)
               /\ out'.emit = <<[to |-> OGet(activeConnections, K), data |-> out'.arg]>>)
    /\ (Ran("test-callback") /\ out'.body.testData.actionId = K /\ out'.emit # <<>>)
         => (OHas(activeConnections, K)
               /\ Len(out'.emit) = 1
               /\ out'.emit[1].to = OGet(activeConnections, K))
    /\ (Ran("register") /\ out'.arg.actionId = K /\ out'.emit # <<>>)
         => (Len(out'.emit) = 1 /\ out'.emit[1].to = OGet(activeConnections', K))
    /\ (Ran("disconnect") /\ OHas(activeConnections, K)
          /\ OGet(activeConnections, K) # out'.arg)
         => (OHas(activeConnections', K)
               /\ OGet(activeConnections', K) = OGet(activeConnections, K))

C7_LastRegistrationWins == [][C7_Step]_vars

\* socket s2 has just registered an actionId that s1 held, and holds it
C7_Witness ==
  /\ out.op = "register"
  /\ out.arg.socket = "s2"
  /\ out.body.previous = {"s1"}
  /\ Cardinality(Entries(activeConnections, out.arg.actionId)) = 1
  /\ OGet(activeConnections, out.arg.actionId) = "s2"

(* ================================ C8 =================================== *)

\* a callback is stored under k with arrival timestamp t
StoredAt(k, t) ==
  /\ Has(callbackStorage, k)
  /\ Has(callbackMetadata, k)
  /\ callbackMetadata[k].timestamp = t

\* every stored callback has metadata, and none is still stored later than
\* its arrival + maxAge + sweepInterval
C8_Bound ==
  \A k \in (DOMAIN callbackStorage) \cup (DOMAIN callbackMetadata) :
    /\ Has(callbackMetadata, k)
    /\ now <= callbackMetadata[k].timestamp + maxAge + sweepInterval

\* the arrival instants whose whole lifetime lies within the clock's range
ExpirableTimes ==
  {t \in {i * TickMs : i \in 0..MaxTicks} : t + maxAge + sweepInterval <= Horizon(MaxTicks)}

\* C8: with the sweep run every sweepInterval (120 s) and maxAge 300 s, a
\* callback stored at T is in neither Map at any time later than
\* T + maxAge + sweepInterval, and a callback stored at T is eventually gone
\* (removed, or replaced by a later arrival).
C8_Expiry ==
  /\ []C8_Bound
  /\ \A t \in ExpirableTimes :
       \A k \in Keys \cup {GeneratedKey(t)} :
         StoredAt(k, t) ~> ~StoredAt(k, t)

\* the sweep has just removed a callback that had stayed stored for the
\* longest time the bound allows, maxAge + sweepInterval: the one
\* /test-callback stored at t under the key it made up from t
C8_Witness ==
  /\ out.op = "sweep"
  /\ \E t \in ExpirableTimes :
       /\ GeneratedKey(t) \in out.body.cleaned
       /\ out.arg = t + maxAge + sweepInterval
  /\ ~\E k \in DOMAIN callbackStorage : k \in out.body.cleaned
  /\ ~\E k \in DOMAIN callbackMetadata : k \in out.body.cleaned

(* ================================ C9 =================================== *)

\* the elements of the array q
Elems(q) == {q[i] : i \in 1..Len(q)}

\* q[i] is the first occurrence in q of an actionId that storage holds
FirstHit(q, i, storage) ==
  Has(storage, q[i]) /\ \A j \in 1..(i - 1) : q[j] # q[i]

RECURSIVE Occurrences(_, _, _, _)
\* the elements q[i..], in order, that are first hits (hit = TRUE) or are
\* not (hit = FALSE)
Occurrences(q, i, storage, hit) ==
  IF i > Len(q) THEN <<>>
  ELSE (IF FirstHit(q, i, storage) = hit THEN <<q[i]>> ELSE <<>>)
         \o Occurrences(q, i + 1, storage, hit)

\* m is the Map before without the keys in gone, every other entry as it was
Without(m, before, gone) ==
  /\ DOMAIN m = (DOMAIN before) \ gone
  /\ \A k \in DOMAIN m : m[k] = before[k]

\* C9 as claimed: /check-callbacks with an array answers 200 with found = the
\* requested actionIds that had a stored callback and notFound = the
\* requested actionIds that had none, the two counts adding up to the length
\* of the array; it removes the found ones from both Maps and leaves every
\* other entry as it was; with something that is not an array it answers 400
\* and changes nothing.
C9_Original ==
  [][/\ (Ran("check-callbacks") /\ out'.arg.kind = "array")
          => LET q == out'.arg.items
                 had == {k \in Elems(q) : Has(callbackStorage, k)}
             IN  /\ out'.status = 200
                 /\ Elems(out'.body.foundActionIds) = had
                 /\ Elems(out'.body.notFoundActionIds) = Elems(q) \ had
                 /\ out'.body.found + out'.body.notFound = Len(q)
                 /\ Without(callbackStorage', callbackStorage, had)
                 /\ Without(callbackMetadata', callbackMetadata, had)
     /\ (Ran("check-callbacks") /\ out'.arg.kind # "array")
          => /\ out'.status = 400
             /\ UNCHANGED <<activeConnections, callbackStorage, callbackMetadata>>]_vars

\* C9, amended: /check-callbacks with an array answers 200, whatever misses;
\* found lists each requested actionId that had a stored callback, once, at
\* its first occurrence; notFound lists every other occurrence: the actionIds
\* with no stored callback and the repeats of a found one; the counts are the
\* lengths of the two lists and add up to the length of the array; the
\* results object has an entry for every requested actionId; the found
\* actionIds are removed from both Maps and every other entry is as it was.
\* With something that is not an array it answers 400 and changes nothing.
C9_Step ==
  /\ (Ran("check-callbacks") /\ out'.arg.kind = "array")
       => LET q == out'.arg.items
              had == {k \in Elems(q) : Has(callbackStorage, k)}
              b == out'.body
          IN  /\ out'.status = 200
              /\ b.foundActionIds = Occurrences(q, 1, callbackStorage, TRUE)
              /\ b.notFoundActionIds = Occurrences(q, 1, callbackStorage, FALSE)
              /\ Elems(b.foundActionIds) = had
              /\ b.found = Len(b.foundActionIds)
              /\ b.notFound = Len(b.notFoundActionIds)
              /\ b.found + b.notFound = Len(q)
              /\ b.total = Len(q)
              /\ DOMAIN b.results = Elems(q)
              /\ Without(callbackStorage', callbackStorage, had)
              /\ Without(callbackMetadata', callbackMetadata, had)
              /\ activeConnections' = activeConnections
  /\ (Ran("check-callbacks") /\ out'.arg.kind # "array")
       => /\ out'.status = 400
          /\ UNCHANGED <<activeConnections, callbackStorage, callbackMetadata>>

C9_BulkConsume == [][C9_Step]_vars

\* /check-callbacks has just answered an array that names a stored actionId
\* twice, found once and not found once, with another callback left stored
C9_Witness ==
  /\ out.op = "check-callbacks" /\ out.status = 200
  /\ out.arg.items = <<"k1", "k1">>
  /\ out.body.foundActionIds = <<"k1">>
  /\ out.body.notFoundActionIds = <<"k1">>
  /\ Has(callbackStorage, "k2")

(* ================================ C10 ================================== *)

\* C10: the handlers run one at a time, each to its end, so polls of the same
\* actionId take turns.  No callback is returned to pollers twice; a poll
\* (a GET /check-callback, or one turn of /check-callbacks) that finds the
\* entry returns it and is the one recorded for it; a poll that finds none
\* answers a miss and takes nothing.
C10_Step ==
  /\ \A e \in 1..submitted' : Len(pulled'[e]) <= 1
  /\ \A K \in Keys :
       /\ (Ran("check-callback") /\ out'.arg = K)
            => IF Has(callbackStorage, K)
               THEN /\ out'.status = 200
                    /\ out'.body.data = callbackStorage[K]
                    /\ pulled[callbackStorage[K].id] = <<>>
                    /\ pulled' = Took(pulled, callbackStorage[K].id, K)
               ELSE /\ out'.status = 404
                    /\ pulled' = pulled
       /\ (Ran("check-callbacks") /\ out'.arg.kind = "array"
             /\ K \in Elems(out'.arg.items))
            => IF Has(callbackStorage, K)
               THEN /\ Cardinality({i \in 1..Len(out'.body.foundActionIds) :
                                       out'.body.foundActionIds[i] = K}) = 1
                    /\ pulled[callbackStorage[K].id] = <<>>
                    /\ pulled'[callbackStorage[K].id] = <<K>>
               ELSE /\ K \notin Elems(out'.body.foundActionIds)
                    /\ out'.body.results[K].success = FALSE

C11_Step ==
  \A K \in Keys :
    (Ran("check-callback") /\ out'.arg = K /\ ~Has(callbackStorage, K))
      => /\ out'.status = 404
         /\ out'.body.success = FALSE
         /\ out'.body.actionId = K
         /\ out'.body.availableActionIds = DOMAIN callbackStorage'
         /\ K \notin out'.body.availableActionIds
         /\ UNCHANGED <<activeConnections, callbackStorage, callbackMetadata>>

C11_NotFoundListsStore == [][C11_Step]_vars

\* a poll of an actionId has just missed while a callback is stored under
\* another actionId and a third party's registration is in place
C11_Witness ==
  /\ out.op = "check-callback" /\ out.status = 404
  /\ out.arg \in Keys
  /\ out.body.availableActionIds # {}
  /\ out.body.availableActionIds = DOMAIN callbackStorage
  /\ activeConnections # <<>>

(* ================================ C12 ================================== *)

\* C12: one /callback for K and one 'register' for K by a connected socket
\* H, run one right after the other in either order (nothing stored for K
\* before them), emit the payload to H exactly once.  (a) 'register' first,
\* finding nothing stored, then /callback: /callback emits the payload to H,
\* once, and 'register' has emitted nothing.  (b) /callback first, emitting
\* to nobody, then 'register': 'register' emits the stored payload to H,
\* once.  Either way the emits recorded for the callback add up to one.
C12_Step ==
  \A K \in Keys :
    /\ (Ran("callback") /\ out'.status = 200 /\ out'.arg.actionId = K
          /\ out.op = "register" /\ out.arg.actionId = K /\ out.emit = <<>>)
         => /\ out'.emit = <<[to |-> out.arg.socket, data |-> out'.arg]>>
            /\ pushedOnArrival'[out'.arg.id] = 1
            /\ pushedOnRegister'[out'.arg.id] = 0
    /\ (Ran("register") /\ out'.arg.actionId = K
          /\ out.op = "callback" /\ out.status = 200 /\ out.arg.actionId = K
          /\ out.emit = <<>>)
         => /\ out'.emit = <<[to |-> out'.arg.socket, data |-> out.arg]>>
            /\ pushedOnArrival'[out.arg.id] = 0
            /\ pushedOnRegister'[out.arg.id] = 1

C12_RaceDeliversOnce == [][C12_Step]_vars

\* both orders have happened: the first callback was emitted by /callback to
\* the registered socket, the second was emitted by the 'register' that has
\* just run, each once
C12_Witness ==
  /\ submitted = 2
  /\ pushedOnArrival = <<1, 0>>
  /\ pushedOnRegister = <<0, 1>>
  /\ out.op = "register"
  /\ out.emit # <<>>
  /\ out.emit[1].data = [actionId |-> out.arg.actionId, id |-> 2]

(* ================================ C13 ================================== *)

\* the callback stored under K is not stored under K after the step
Leaves(K) ==
  /\ Has(callbackStorage, K)
  /\ (~Has(callbackStorage', K) \/ callbackStorage'[K] # callbackStorage[K])

\* the step hands the callback stored under K to a consumer: 'register' for
\* K emits it to the registering socket, or GET /check-callback/K returns it
Delivers(K) ==
  \/ /\ Ran("register") /\ out'.arg.actionId = K
     /\ out'.emit = <<[to |-> out'.arg.socket, data |-> callbackStorage[K]]>>
  \/ /\ Ran("check-callback") /\ out'.arg = K
     /\ out'.status = 200 /\ out'.body.data = callbackStorage[K]

\* the step is the sweep removing K as expired, or the reset
Discards(K) ==
  \/ Ran("sweep") /\ K \in out'.body.cleaned
  \/ Ran("cleanup")

\* C13 as claimed: among the steps of /callback, 'register',
\* GET /check-callback, the sweep and the reset, a stored callback leaves
\* callbackStorage only in a step that hands it to a consumer, or by the
\* sweep or the reset.
C13_Original ==
  [][\A K \in DOMAIN callbackStorage :
       (Leaves(K) /\ ~Ran("test-callback") /\ ~Ran("check-callbacks"))
         => (Delivers(K) \/ Discards(K))]_vars

\* C13, amended: a stored callback for K leaves callbackStorage only (1) in
\* a step that hands it to a consumer ('register' for K emitting it, a
\* GET /check-callback/K returning it), (2) by the sweep or the reset, (3) by
\* a new callback for K (/callback or /test-callback), which stores the new
\* payload in its place whether or not the old one was ever delivered, or
\* (4) in a POST /check-callbacks naming K.  'register' and
\* GET /check-callback never remove it without handing it over.
C13_Step ==
  \A K \in DOMAIN callbackStorage :
    Leaves(K)
      => \/ Delivers(K)
         \/ Discards(K)
         \/ /\ Ran("callback") /\ out'.status = 200 /\ out'.arg.actionId = K
            /\ Has(callbackStorage', K) /\ callbackStorage'[K] = out'.arg
         \/ /\ Ran("test-callback") /\ out'.body.testData.actionId = K
            /\ Has(callbackStorage', K) /\ callbackStorage'[K] = out'.body.testData
         \/ /\ Ran("check-callbacks") /\ out'.status = 200
            /\ K \in Elems(out'.arg.items)

C13_NoSilentLoss == [][C13_Step]_vars

\* the second callback has just been handed to the registering socket and
\* has left the store, while the first was never handed to anyone
C13_Witness ==
  /\ submitted = 2
  /\ out.op = "register" /\ out.emit # <<>>
  /\ out.emit[1].data = [actionId |-> out.arg.actionId, id |-> 2]
  /\ ~Has(callbackStorage, out.arg.actionId)
  /\ pushedOnArrival = <<0, 0>>
  /\ pushedOnRegister = <<0, 1>>
  /\ pulled = <<<<>>, <<>>>>

(* ================================ C14 ================================== *)

\* C14: when a /callback accepted for K or a 'register' for K has run, K is
\* not in both activeConnections and callbackStorage.
C14_Original ==
  [][\A K \in Keys :
       (\/ Ran("callback") /\ out'.status = 200 /\ out'.arg.actionId = K
        \/ Ran("register") /\ out'.arg.actionId = K)
         => ~(OHas(activeConnections', K) /\ Has(callbackStorage', K))]_vars

(* ================================ C15 ================================== *)

\* the entries of conns that do not belong to socket s, in order
OthersOf(conns, s) == SelectSeq(conns, LAMBDA e : e.socketId # s)

\* C15: when 'disconnect' of socket H has run, activeConnections holds no
\* entry for H, however many actionIds H had registered, and the entries of
\* the other sockets are as they were.
C15_Original ==
  [][Ran("disconnect")
       => /\ \A i \in 1..Len(activeConnections') :
               activeConnections'[i].socketId # out'.arg
          /\ OthersOf(activeConnections', out'.arg)
               = OthersOf(activeConnections, out'.arg)]_vars

(* ================================ C16 ================================== *)

\* C16: (a) a sweep at time now removes from both Maps exactly the entries
\* whose age, now minus the arrival timestamp, is greater than maxAge, and
\* leaves every entry whose age is at most maxAge as it was.  (b) /callback
\* and /test-callback for K record the time of the call as K's arrival
\* timestamp, also when K was already stored, and nothing else changes the
\* timestamp of a stored K.  So (c) the sweep never removes K less than, or
\* exactly, maxAge after the latest callback for K.
C16_Step ==
  /\ Ran("sweep")
       => LET old == {k \in DOMAIN callbackMetadata :
                        now - callbackMetadata[k].timestamp > maxAge}
          IN  /\ out'.arg = now
              /\ out'.body.cleaned = old
              /\ Without(callbackStorage', callbackStorage, old)
              /\ Without(callbackMetadata', callbackMetadata, old)
              /\ \A k \in DOMAIN callbackMetadata :
                    now - callbackMetadata[k].timestamp <= maxAge
                      => (Has(callbackStorage', k) /\ Has(callbackMetadata', k))
  /\ \A K \in DOMAIN callbackMetadata' :
       /\ (\/ Ran("callback") /\ out'.status = 200 /\ out'.arg.actionId = K
           \/ Ran("test-callback") /\ out'.body.testData.actionId = K)
            => callbackMetadata'[K].timestamp = now
       /\ (Has(callbackMetadata, K)
             /\ callbackMetadata'[K].timestamp # callbackMetadata[K].timestamp)
            => (\/ Ran("callback") /\ out'.status = 200 /\ out'.arg.actionId = K
                \/ Ran("test-callback") /\ out'.body.testData.actionId = K)

C16_SweepExact == [][C16_Step]_vars

\* the sweep at 360 s has just kept the second callback, stored under k1 at
\* 60 s (age exactly maxAge) after an earlier callback for k1
C16_Witness ==
  /\ out.op = "sweep" /\ out.arg = 360000
  /\ "k1" \notin out.body.cleaned
  /\ Has(callbackStorage, "k1")
  /\ callbackStorage["k1"].id = 2
  /\ callbackMetadata["k1"].timestamp = 60000
  /\ out.arg - callbackMetadata["k1"].timestamp = maxAge
  /\ pushedOnArrival[1] = 1

(* ================================ C17 ================================== *)

\* C17: whatever array POST /check-callbacks is given, repeats included,
\* every callback it removes from callbackStorage is in the results object
\* it returns: the entry for that actionId says success and carries the
\* payload.
C17_Original ==
  [][(Ran("check-callbacks") /\ out'.arg.kind = "array")
       => \A K \in DOMAIN callbackStorage :
            ~Has(callbackStorage', K)
              => /\ K \in DOMAIN out'.body.results
                 /\ out'.body.results[K].success = TRUE
                 /\ out'.body.results[K].data = callbackStorage[K]]_vars

(* ================================ C18 ================================== *)

\* C18 as claimed: no callback is emitted over a socket more than once, the
\* emit of its arrival handler and the emits of 'register' counted together.
C18_Original ==
  \A e \in Events : pushedOnArrival[e] + pushedOnRegister[e] <= 1

\* C18, amended: a callback is emitted at most once by its arrival handler
\* and at most once by 'register', so at most twice in all.  Every step
\* emits at most one message; an arrival handler emits only the callback it
\* received, in the step that receives it; 'register' emits only the
\* callback stored under the actionId registered, and removes it from both
\* Maps as it does, so that no later 'register' finds it.
C18_Step ==
  /\ Len(out'.emit) <= 1
  /\ \A e \in 1..submitted' :
       /\ pushedOnArrival'[e] <= 1
       /\ pushedOnRegister'[e] <= 1
  /\ \A e \in 1..submitted :
       /\ pushedOnArrival'[e] = pushedOnArrival[e]
       /\ pushedOnRegister'[e] # pushedOnRegister[e]
            => /\ Ran("register")
               /\ Has(callbackStorage, out'.arg.actionId)
               /\ callbackStorage[out'.arg.actionId].id = e
               /\ out'.emit = <<[to |-> out'.arg.socket,
                                 data |-> callbackStorage[out'.arg.actionId]]>>
               /\ ~Has(callbackStorage', out'.arg.actionId)
               /\ ~Has(callbackMetadata', out'.arg.actionId)

C18_OncePerPath == [][C18_Step]_vars

\* 'register' has just emitted a callback that its arrival handler had
\* already emitted: the callback has gone out twice
C18_Witness ==
  /\ out.op = "register" /\ out.emit # <<>>
  /\ pushedOnArrival[out.emit[1].data.id] = 1
  /\ pushedOnRegister[out.emit[1].data.id] = 1
  /\ pulled[out.emit[1].data.id] = <<>>

(* ================================ C19 ================================== *)

\* C19: callbackStorage and callbackMetadata hold the same actionIds in
\* every reachable state: each handler that sets or deletes a key in one Map
\* sets or deletes it in the other.
C19_SameKeys == DOMAIN callbackStorage = DOMAIN callbackMetadata

\* the sweep has just removed an expired callback from both Maps and left a
\* younger one in both
C19_Witness ==
  /\ out.op = "sweep"
  /\ out.body.cleaned # {}
  /\ DOMAIN callbackStorage # {}
  /\ DOMAIN callbackStorage = DOMAIN callbackMetadata
  /\ out.body.cleaned \cap DOMAIN callbackStorage = {}

(* ================================ C20 ================================== *)

\* the record r cut down to the fields of the body b
Only(r, b) == [f \in DOMAIN b |-> r[f]]

\* C20: /test-callback with a body that has a non-empty actionId K does
\* what /callback does with it from the same state: it emits to the same
\* socket (the connected one registered for K, if any) a payload with the
\* body's fields, stores such a payload under K, leaves every other stored
\* callback alone, and leaves activeConnections as /callback does: without
\* K when it has emitted, unchanged when it has not.
C20_Original ==
  [][(Ran("test-callback") /\ ~MissingActionId(out'.arg))
       => LET b == out'.arg
              K == b.actionId
              target == PushTarget(activeConnections, sockets, K)
          IN  /\ Len(out'.emit) = Cardinality(target)
              /\ \A i \in 1..Len(out'.emit) :
                    /\ out'.emit[i].to \in target
                    /\ Only(out'.emit[i].data, b) = b
              /\ DOMAIN callbackStorage' = (DOMAIN callbackStorage) \cup {K}
              /\ Only(callbackStorage'[K], b) = b
              /\ \A k \in (DOMAIN callbackStorage) \ {K} :
                    callbackStorage'[k] = callbackStorage[k]
              /\ activeConnections' = IF target # {}
                                       THEN CallbackCleanup(activeConnections, K)
                                       ELSE activeConnections]_vars

====
